---- MODULE Spec2Model ----
(***************************************************************************)
(* A model of FileTagManager (src/app.py): the in-memory map tags_db, the  *)
(* foreground mutation calls, the background save worker and the files it  *)
(* touches.  The foreground thread and the worker thread interleave at the *)
(* granularity of the steps below; time advances in ticks.                 *)
(***************************************************************************)
EXTENDS Integers, Sequences, FiniteSets, TLC

(***************************************************************************)
(* Bounds of the model.                                                    *)
(***************************************************************************)
\* ticks per time unit (one time unit is the 1 of lines 53, 54 and 68)
TicksPerUnit == 2
\* most signals the model lets wait in _save_queue
MaxQueue == 2
\* most signals in _save_queue when the worker never runs
MaxCalls == 4
\* files per batch of add_tags_to_directory: line 149 has 100, which the model
\* scales down to the size of its directories
batch_size == 2

(***************************************************************************)
(* Program constants.                                                      *)
(***************************************************************************)
max_retries == 3
RateLimit == 1
GetTimeout == 1
InitialDelay == 1

(***************************************************************************)
(* Strings.  A tag is a sequence of characters; NonStr is a list element   *)
(* that is not a str, on which tag.strip() raises.                         *)
(***************************************************************************)
NonStr == <<"None">>

IsStr(t) == \A i \in 1..Len(t) : t[i] \in {" ", "a", "A", "b", "B"}

lower(t) == [i \in 1..Len(t) |-> CASE t[i] = "A" -> "a" [] t[i] = "B" -> "b" [] OTHER -> t[i]]

RECURSIVE lstrip(_)
lstrip(t) == IF t # <<>> /\ Head(t) = " " THEN lstrip(Tail(t)) ELSE t

RECURSIVE rstrip(_)
rstrip(t) == IF t # <<>> /\ t[Len(t)] = " " THEN rstrip(SubSeq(t, 1, Len(t) - 1)) ELSE t

strip(t) == rstrip(lstrip(t))

\* tag.strip().lower()
NormTag(t) == lower(strip(t))

Contains(s, e) == \E i \in 1..Len(s) : s[i] = e

\* list.remove(e): drops the first occurrence
RECURSIVE ListRemove(_, _)
ListRemove(s, e) ==
    IF s = <<>> THEN <<>>
    ELSE IF Head(s) = e THEN Tail(s)
    ELSE <<Head(s)>> \o ListRemove(Tail(s), e)

(***************************************************************************)
(* Paths.  A path string is the sequence of its "/"-separated components:  *)
(* "./d/f1" is <<".", "d", "f1">>, "d//f1" is <<"d", "", "f1">> and "d/"   *)
(* is <<"d", "">>.  Only relative paths are modelled.                      *)
(***************************************************************************)
\* str(Path(filepath)): drops "." and empty components; Path("") is "."
PathStr(p) ==
    LET q == SelectSeq(p, LAMBDA c : c \notin {".", ""})
    IN  IF q = <<>> THEN <<".">> ELSE q

\* os.path.join(root, filename)
PathJoin(root, filename) ==
    IF root # <<>> /\ root[Len(root)] = ""
    THEN SubSeq(root, 1, Len(root) - 1) \o <<filename>>
    ELSE root \o <<filename>>

\* the directories of the file system and the names of the files in each
Listing(directory) ==
    CASE directory = <<"d">> -> <<"f1", "f2", "f3", "f4", "f5">>
      [] directory = <<"s">> -> <<"g1">>
      [] OTHER -> <<>>

\* the files os.walk(directory) finds, each as os.path.join(root, filename)
WalkFiles(directory) ==
    LET filenames == Listing(PathStr(directory))
    IN  [k \in 1..Len(filenames) |-> PathJoin(directory, filenames[k])]

Min(a, b) == IF a < b THEN a ELSE b


(***************************************************************************)
(* State.                                                                  *)
(***************************************************************************)
VARIABLES
    tags_db,            \* self.tags_db: a function from path to tag list
    _save_queue,        \* number of signals waiting in self._save_queue
    _save_lock,         \* holder of self._save_lock: "free" or "worker"
    _pending_changes,   \* self._pending_changes
    time_since_last_save, \* time.time() - self._last_save in ticks, kept up to RateLimit
    fg,                 \* the foreground thread: its position and the locals of its call
    wk,                 \* the save worker: its position and the locals of its iteration
    db_file,            \* the file at self.db_file
    backup_file,        \* whether self.db_file + ".backup" exists
    temp_file,          \* the temporary file of the current attempt
    platform,           \* sys.platform: "win32" or "posix"
    hist                \* what the calls in progress have done so far (observation only)

vars == <<tags_db, _save_queue, _save_lock, _pending_changes, time_since_last_save,
          fg, wk, db_file, backup_file, temp_file, platform, hist>>

Ticks(units) == units * TicksPerUnit

(***************************************************************************)
(* Files.  The content of a file is nothing (the file is missing), a       *)
(* complete JSON document, or text json.loads rejects (empty or garbage).  *)
(***************************************************************************)
Missing == [kind |-> "missing"]
EmptyFile == [kind |-> "empty"]
Garbage == [kind |-> "garbage"]
\* a file with content that open() refuses with PermissionError
Unreadable == [kind |-> "unreadable"]
Json(d) == [kind |-> "json", data |-> d]

EmptyDb == [x \in {} |-> <<>>]

\* _load_db, lines 104-124: the mapping it returns
LoadResult(f) == IF f.kind = "json" THEN f.data ELSE EmptyDb

\* _load_db, lines 113-122: whether it tries to rename the file to the backup name
LoadRenames(f) == f.kind \in {"garbage", "unreadable"}

(***************************************************************************)
(* Queries and list operations.                                            *)
(***************************************************************************)
\* get_tags, lines 182-189
get_tags(filepath) ==
    IF PathStr(filepath) \in DOMAIN tags_db THEN tags_db[PathStr(filepath)] ELSE <<>>

\* the members of a tag list
Members(s) == {s[i] : i \in 1..Len(s)}

\* AppendTag without the test of line 134 for a tag the list has already
AppendTag_NoDedupe(list, raw) ==
    LET tag == NormTag(raw)
    IN  IF tag # <<>> THEN Append(list, tag) ELSE list

\* lines 133-135 (and 157-159) for one tag that is a str: the list after the step
AppendTag(list, raw) ==
    LET tag == NormTag(raw)
    IN  IF tag # <<>> /\ ~Contains(list, tag) THEN Append(list, tag) ELSE list

\* lines 156-159 for the tags before the first element that is not a str
RECURSIVE AppendTags(_, _)
AppendTags(list, tags) ==
    IF tags = <<>> \/ ~IsStr(Head(tags)) THEN list
    ELSE AppendTags(AppendTag(list, Head(tags)), Tail(tags))

AllStr(tags) == \A i \in 1..Len(tags) : IsStr(tags[i])

\* the map with key k set to list v
DbSet(db, k, v) == [x \in (DOMAIN db) \cup {k} |-> IF x = k THEN v ELSE db[x]]

\* the map without key k
DbDel(db, k) == [x \in (DOMAIN db) \ {k} |-> db[x]]

(***************************************************************************)
(* Observation.  hist records what the claims speak about; no action reads *)
(* it to decide what the program does.                                     *)
(***************************************************************************)
\* the part of hist about a call of _save_db_with_retry, before the call
NoSave == [start_file |-> Missing, wrote |-> FALSE, sleeps |-> <<>>, tmp_left |-> 0]

\* the part of hist about a foreground call, between calls
NoCall == [pre |-> EmptyDb, clean |-> EmptyDb, path |-> <<>>, progress |-> <<>>, signals |-> 0]

\* the part of hist about a rate-limit window: not observed, or none begun
WindowOff == [state |-> "off", age |-> 0, saves |-> 0]
NoWindow == [state |-> "none", age |-> 0, saves |-> 0]

NoHist(window) ==
    [call     |-> NoCall,    \* of the foreground call in progress:
                             \*   pre: tags_db when it began (add_tags)
                             \*   clean: inside a mutation, tags_db before it
                             \*   path: the filepath it was given
                             \*   progress: the arguments of progress_callback so far
                             \*   signals: the signals it has put in _save_queue
     save     |-> NoSave,    \* of the _save_db_with_retry in progress:
                             \*   start_file: db_file when it began
                             \*   wrote: whether it has replaced db_file
                             \*   sleeps: its time.sleep arguments so far
                             \*   tmp_left: temporary files its attempts left
     instants |-> {},        \* during json.dump: the values tags_db had, outside a
                             \* mutation, before the dump or during it, that agree
                             \* with all that json.dump has written so far
     window   |-> window]    \* of the mutations that began within one time unit of
                             \* a first one, issued when nothing was left to save:
                             \*   state: "open" while the unit lasts, "closed"
                             \*     after it, "done" when their signals are taken
                             \*   age: ticks since the first
                             \*   saves: calls of _save_db_with_retry since the first

\* json.dump is running: the temporary file is open and being written
Dumping == wk.pc = "dump"

\* the foreground f is inside the mutation of a call or of a batch
MidMutation(f) ==
    \/ f.pc \in {"add_tags_loop", "remove_tag_del"}
    \/ f.pc = "batch" /\ f.j > f.i + 1

\* hist after a foreground step that leaves tags_db at db and the foreground at f
SeenDb(h, db, f) ==
    LET g == [h EXCEPT !.call.clean =
                  IF ~MidMutation(f) THEN EmptyDb
                  ELSE IF ~MidMutation(fg) THEN tags_db ELSE @]
    IN  IF /\ Dumping
           /\ ~MidMutation(f)
           /\ \A k \in DOMAIN temp_file.data : k \in DOMAIN db /\ db[k] = temp_file.data[k]
        THEN [g EXCEPT !.instants = @ \cup {db}]
        ELSE g

\* every signal of the observed window has been taken and handled
WindowDrained(pc, queue) == pc = "get" /\ queue = 0 /\ fg.pc # "put"

\* hist.window after a step that leaves the worker at pc and the queue at queue
WindowAfter(w, pc, queue) ==
    IF w.state = "closed" /\ WindowDrained(pc, queue) THEN [w EXCEPT !.state = "done"] ELSE w

(***************************************************************************)
(* The foreground thread.                                                  *)
(***************************************************************************)
None == [raised |-> FALSE, value |-> -1]
Returned(v) == [raised |-> FALSE, value |-> v]
RuntimeError == [raised |-> TRUE, value |-> -1]

\* the foreground between two calls
FgIdle ==
    [pc |-> "idle", op |-> "none", filepath |-> <<>>, tags |-> <<>>, k |-> 0,
     files |-> <<>>, i |-> 0, j |-> 0, cb |-> FALSE, result |-> None]

\* the call ends: it returns result, or raises it
Return(f, result) == [f EXCEPT !.pc = "return", !.result = result]

\* add_tags, lines 129-131
add_tags(filepath, tags) ==
    /\ fg.pc = "idle"
    /\ LET key == PathStr(filepath)
           db == IF key \in DOMAIN tags_db THEN tags_db ELSE DbSet(tags_db, key, <<>>)
           f == [FgIdle EXCEPT !.pc = IF tags = <<>> THEN "queue_save" ELSE "add_tags_loop",
                               !.op = "add_tags", !.filepath = key, !.tags = tags, !.k = 1]
       IN  /\ tags_db' = db
           /\ fg' = f
           /\ hist' = SeenDb([hist EXCEPT !.call = [NoCall EXCEPT !.pre = tags_db,
                                                                  !.path = filepath]],
                             db, f)
    /\ UNCHANGED <<_save_queue, _save_lock, _pending_changes, time_since_last_save,
                   wk, db_file, backup_file, temp_file, platform>>

\* add_tags, lines 132-135 for one tag, and line 138 when tag.strip() raises
add_tags_loop ==
    /\ fg.pc = "add_tags_loop"
    /\ LET raw == fg.tags[fg.k]
           db == DbSet(tags_db, fg.filepath, AppendTag(tags_db[fg.filepath], raw))
           f == [fg EXCEPT !.k = @ + 1,
                           !.pc = IF fg.k = Len(fg.tags) THEN "queue_save" ELSE "add_tags_loop"]
       IN  IF ~IsStr(raw)
           THEN /\ fg' = Return(fg, RuntimeError)
                /\ hist' = SeenDb(hist, tags_db, Return(fg, RuntimeError))
                /\ UNCHANGED tags_db
           ELSE /\ tags_db' = db
                /\ fg' = f
                /\ hist' = SeenDb(hist, db, f)
    /\ UNCHANGED <<_save_queue, _save_lock, _pending_changes, time_since_last_save,
                   wk, db_file, backup_file, temp_file, platform>>

\* remove_tag, lines 173-175
remove_tag(filepath, tag) ==
    /\ fg.pc = "idle"
    /\ LET key == PathStr(filepath)
           db == DbSet(tags_db, key, ListRemove(tags_db[key], tag))
           call == [NoCall EXCEPT !.path = filepath]
           f == [FgIdle EXCEPT !.pc = "remove_tag_del", !.op = "remove_tag", !.filepath = key]
       IN  IF key \in DOMAIN tags_db /\ Contains(tags_db[key], tag)
           THEN /\ tags_db' = db
                /\ fg' = f
                /\ hist' = SeenDb([hist EXCEPT !.call = call], db, f)
           ELSE /\ fg' = Return([FgIdle EXCEPT !.op = "remove_tag", !.filepath = key], None)
                /\ hist' = [hist EXCEPT !.call = call]
                /\ UNCHANGED tags_db
    /\ UNCHANGED <<_save_queue, _save_lock, _pending_changes, time_since_last_save,
                   wk, db_file, backup_file, temp_file, platform>>

\* remove_tag, lines 176-177
remove_tag_del ==
    /\ fg.pc = "remove_tag_del"
    /\ LET db == IF tags_db[fg.filepath] = <<>> THEN DbDel(tags_db, fg.filepath) ELSE tags_db
       IN  /\ tags_db' = db
           /\ hist' = SeenDb(hist, db, [fg EXCEPT !.pc = "queue_save"])
    /\ fg' = [fg EXCEPT !.pc = "queue_save"]
    /\ UNCHANGED <<_save_queue, _save_lock, _pending_changes, time_since_last_save,
                   wk, db_file, backup_file, temp_file, platform>>

\* add_tags_to_directory, lines 143-151
add_tags_to_directory(directory, tags, progress_callback) ==
    /\ fg.pc = "idle"
    /\ LET files == WalkFiles(directory)
           f == [FgIdle EXCEPT !.op = "add_tags_to_directory", !.tags = tags,
                               !.files = files, !.i = 0, !.j = 1, !.cb = progress_callback]
       IN  fg' = IF Len(files) = 0 THEN Return(f, Returned(0)) ELSE [f EXCEPT !.pc = "batch"]
    /\ hist' = [hist EXCEPT !.call = [NoCall EXCEPT !.path = directory]]
    /\ UNCHANGED <<tags_db, _save_queue, _save_lock, _pending_changes, time_since_last_save,
                   wk, db_file, backup_file, temp_file, platform>>

\* add_tags_to_directory, lines 153-159 for one file of the batch, and line
\* 168 when tag.strip() raises
batch ==
    /\ fg.pc = "batch"
    /\ LET filepath == fg.files[fg.j]
           old == IF filepath \in DOMAIN tags_db THEN tags_db[filepath] ELSE <<>>
           db == DbSet(tags_db, filepath, AppendTags(old, fg.tags))
           last == Min(fg.i + batch_size, Len(fg.files))
           f == IF ~AllStr(fg.tags) THEN Return(fg, RuntimeError)
                ELSE [fg EXCEPT !.j = @ + 1,
                                !.pc = IF fg.j + 1 > last THEN "queue_save" ELSE "batch"]
       IN  /\ tags_db' = db
           /\ fg' = f
           /\ hist' = SeenDb(hist, db, f)
    /\ UNCHANGED <<_save_queue, _save_lock, _pending_changes, time_since_last_save,
                   wk, db_file, backup_file, temp_file, platform>>

\* hist.window after queue_save has set the flag
WindowMutation(w) ==
    CASE w.state = "off" -> w
      [] w.state = "open" -> w
      [] w.state = "closed" -> NoWindow
      [] OTHER -> IF wk.pc = "get" /\ _save_queue = 0 /\ ~_pending_changes
                  THEN [state |-> "open", age |-> 0, saves |-> 0]
                  ELSE NoWindow

\* queue_save, were line 101 left out: the signal is sent, the flag is not set
queue_save_NoFlag ==
    /\ fg.pc = "queue_save"
    /\ _save_lock = "free"
    /\ fg' = [fg EXCEPT !.pc = "put"]
    /\ hist' = [hist EXCEPT !.window = WindowMutation(@)]
    /\ UNCHANGED <<tags_db, _save_queue, _save_lock, _pending_changes, time_since_last_save,
                   wk, db_file, backup_file, temp_file, platform>>

\* queue_save, lines 100-101: the foreground waits here while the worker holds the lock
queue_save ==
    /\ fg.pc = "queue_save"
    /\ _save_lock = "free"
    /\ _pending_changes' = TRUE
    /\ fg' = [fg EXCEPT !.pc = "put"]
    /\ hist' = [hist EXCEPT !.window = WindowMutation(@)]
    /\ UNCHANGED <<tags_db, _save_queue, _save_lock, time_since_last_save,
                   wk, db_file, backup_file, temp_file, platform>>

\* add_tags_to_directory, lines 151 and 166: the next batch, or the return
NextBatch(f) ==
    IF f.i + batch_size < Len(f.files)
    THEN [f EXCEPT !.pc = "batch", !.i = @ + batch_size]
    ELSE Return(f, Returned(Len(f.files)))

\* queue_save, line 102, and the return to the caller; the model lets at most
\* limit signals wait
put(limit) ==
    /\ fg.pc = "put"
    /\ _save_queue < limit
    /\ _save_queue' = _save_queue + 1
    /\ fg' = IF fg.op = "add_tags_to_directory"
             THEN IF fg.cb THEN [fg EXCEPT !.pc = "progress"] ELSE NextBatch(fg)
             ELSE Return(fg, None)
    /\ hist' = [hist EXCEPT !.call.signals = @ + 1]
    /\ UNCHANGED <<tags_db, _save_lock, _pending_changes, time_since_last_save,
                   wk, db_file, backup_file, temp_file, platform>>

\* progress, were the count not capped at the number of files
progress_NoMin ==
    /\ fg.pc = "progress"
    /\ hist' = [hist EXCEPT !.call.progress =
                    Append(@, <<fg.i + batch_size, Len(fg.files)>>)]
    /\ fg' = NextBatch(fg)
    /\ UNCHANGED <<tags_db, _save_queue, _save_lock, _pending_changes, time_since_last_save,
                   wk, db_file, backup_file, temp_file, platform>>

\* add_tags_to_directory, lines 163-164
progress ==
    /\ fg.pc = "progress"
    /\ hist' = [hist EXCEPT !.call.progress =
                    Append(@, <<Min(fg.i + batch_size, Len(fg.files)), Len(fg.files)>>)]
    /\ fg' = NextBatch(fg)
    /\ UNCHANGED <<tags_db, _save_queue, _save_lock, _pending_changes, time_since_last_save,
                   wk, db_file, backup_file, temp_file, platform>>

\* the keys of a map as dict iteration yields them; the model fixes one order
RECURSIVE KeySeq(_)
KeySeq(keys) ==
    IF keys = {} THEN <<>>
    ELSE LET k == CHOOSE x \in keys : TRUE IN <<k>> \o KeySeq(keys \ {k})

\* Matches, were any one tag of the query enough
Matches_Any(tags, search_tags) ==
    \E i \in 1..Len(search_tags) : Contains(tags, NormTag(search_tags[i]))

\* search_by_tags, lines 194 and 197: the tag list has every tag of the query
Matches(tags, search_tags) ==
    \A i \in 1..Len(search_tags) : Contains(tags, NormTag(search_tags[i]))

\* search_by_tags, lines 193-202; tag.strip() raising makes it return []
search_by_tags(search_tags) ==
    /\ fg.pc = "idle"
    /\ LET results == SelectSeq(KeySeq(DOMAIN tags_db),
                                LAMBDA filepath : Matches(tags_db[filepath], search_tags))
           f == [FgIdle EXCEPT !.op = "search_by_tags", !.tags = search_tags]
       IN  fg' = Return(f, Returned(IF AllStr(search_tags) THEN results ELSE <<>>))
    /\ UNCHANGED <<tags_db, _save_queue, _save_lock, _pending_changes, time_since_last_save,
                   wk, db_file, backup_file, temp_file, platform, hist>>

\* the call is over: the caller has its result
return ==
    /\ fg.pc = "return"
    /\ fg' = FgIdle
    /\ hist' = [hist EXCEPT !.call = NoCall]
    /\ UNCHANGED <<tags_db, _save_queue, _save_lock, _pending_changes, time_since_last_save,
                   wk, db_file, backup_file, temp_file, platform>>

(***************************************************************************)
(* The save worker.  wk.sleep is the number of ticks left of the wait or   *)
(* sleep the worker is in; wk.n is the size of tags_db when json.dump      *)
(* began to iterate over it.                                               *)
(***************************************************************************)
NoTemp == [kind |-> "none", data |-> EmptyDb]

\* the worker at line 49, waiting for a signal
WkGet == [pc |-> "get", attempt |-> 0, delay |-> 0, sleep |-> Ticks(GetTimeout), n |-> 0]

\* get, were lines 52-54 left out
get_NoRateLimit ==
    /\ wk.pc = "get"
    /\ _save_queue > 0
    /\ _save_queue' = _save_queue - 1
    /\ wk' = [wk EXCEPT !.pc = "lock", !.sleep = 0]
    /\ UNCHANGED <<tags_db, _save_lock, _pending_changes, time_since_last_save,
                   fg, db_file, backup_file, temp_file, platform, hist>>

\* _save_worker, lines 49-54: a signal is taken and the rate limit computed
get ==
    /\ wk.pc = "get"
    /\ _save_queue > 0
    /\ _save_queue' = _save_queue - 1
    /\ wk' = IF time_since_last_save < Ticks(RateLimit)
             THEN [wk EXCEPT !.pc = "rate_sleep", !.sleep = Ticks(RateLimit) - time_since_last_save]
             ELSE [wk EXCEPT !.pc = "lock", !.sleep = 0]
    /\ UNCHANGED <<tags_db, _save_lock, _pending_changes, time_since_last_save,
                   fg, db_file, backup_file, temp_file, platform, hist>>

\* _save_worker, lines 49 and 63-64: the wait times out and starts again
get_timeout ==
    /\ wk.pc = "get"
    /\ _save_queue = 0
    /\ wk.sleep = 0
    /\ wk' = WkGet
    /\ UNCHANGED <<tags_db, _save_queue, _save_lock, _pending_changes, time_since_last_save,
                   fg, db_file, backup_file, temp_file, platform, hist>>

\* _save_worker, line 54: the sleep ends
rate_sleep ==
    /\ wk.pc = "rate_sleep"
    /\ wk.sleep = 0
    /\ wk' = [wk EXCEPT !.pc = "lock"]
    /\ UNCHANGED <<tags_db, _save_queue, _save_lock, _pending_changes, time_since_last_save,
                   fg, db_file, backup_file, temp_file, platform, hist>>

\* _save_worker, lines 56-58, and line 62 when there is nothing to save
lock ==
    /\ wk.pc = "lock"
    /\ _save_lock = "free"
    /\ IF _pending_changes
       THEN /\ _save_lock' = "worker"
            /\ wk' = [wk EXCEPT !.pc = "attempt", !.attempt = 0, !.delay = InitialDelay]
            /\ hist' = [hist EXCEPT
                          !.save = [NoSave EXCEPT !.start_file = db_file],
                          !.window.saves = IF hist.window.state \in {"open", "closed"}
                                           THEN @ + 1 ELSE @]
       ELSE /\ wk' = WkGet
            /\ hist' = [hist EXCEPT !.window = WindowAfter(@, "get", _save_queue)]
            /\ UNCHANGED _save_lock
    /\ UNCHANGED <<tags_db, _save_queue, _pending_changes, time_since_last_save,
                   fg, db_file, backup_file, temp_file, platform>>

\* _save_db_with_retry, lines 73-76: the temporary file is created, or the
\* creation raises
attempt ==
    /\ wk.pc = "attempt"
    /\ \/ /\ temp_file' = [kind |-> "partial", data |-> EmptyDb]
          /\ wk' = [wk EXCEPT !.pc = "dump", !.n = Cardinality(DOMAIN tags_db)]
          /\ hist' = [hist EXCEPT !.instants =
                          {IF MidMutation(fg) THEN hist.call.clean ELSE tags_db}]
       \/ /\ wk' = [wk EXCEPT !.pc = "except"]
          /\ UNCHANGED <<temp_file, hist>>
    /\ UNCHANGED <<tags_db, _save_queue, _save_lock, _pending_changes, time_since_last_save,
                   fg, db_file, backup_file, platform>>

\* _save_db_with_retry, line 77: json.dump takes the next item of tags_db and
\* writes it.  The iteration raises when the size of the map has changed, ends
\* when no item is left, and raises when an item is left after wk.n items.
dump ==
    /\ wk.pc = "dump"
    /\ LET left == (DOMAIN tags_db) \ (DOMAIN temp_file.data)
       IN  IF Cardinality(DOMAIN tags_db) # wk.n
              \/ (left # {} /\ Cardinality(DOMAIN temp_file.data) = wk.n)
           THEN /\ wk' = [wk EXCEPT !.pc = "except", !.n = 0]
                /\ hist' = [hist EXCEPT !.instants = {}]
                /\ UNCHANGED temp_file
           ELSE IF left = {}
           THEN /\ wk' = [wk EXCEPT !.pc = "fsync", !.n = 0]
                /\ hist' = [hist EXCEPT !.instants =
                                {d \in @ : DOMAIN d = DOMAIN temp_file.data}]
                /\ UNCHANGED temp_file
           ELSE \E k \in left :
                /\ temp_file' = [temp_file EXCEPT !.data = DbSet(@, k, tags_db[k])]
                /\ hist' = [hist EXCEPT !.instants =
                                {d \in @ : k \in DOMAIN d /\ d[k] = tags_db[k]}]
                /\ UNCHANGED wk
    /\ UNCHANGED <<tags_db, _save_queue, _save_lock, _pending_changes, time_since_last_save,
                   fg, db_file, backup_file, platform>>

\* _save_db_with_retry, lines 77-83: the data reaches the disk, or a write,
\* flush or fsync raises
fsync ==
    /\ wk.pc = "fsync"
    /\ \/ /\ temp_file' = [temp_file EXCEPT !.kind = "json"]
          /\ wk' = [wk EXCEPT !.pc = IF db_file.kind # "missing" /\ platform = "win32"
                                     THEN "remove" ELSE "rename"]
       \/ /\ wk' = [wk EXCEPT !.pc = "except"]
          /\ UNCHANGED temp_file
    /\ hist' = [hist EXCEPT !.instants = {}]
    /\ UNCHANGED <<tags_db, _save_queue, _save_lock, _pending_changes, time_since_last_save,
                   fg, db_file, backup_file, platform>>

\* _save_db_with_retry, lines 84-88: os.remove succeeds, raises
\* PermissionError (sleep, then continue) or raises another error
remove ==
    /\ wk.pc = "remove"
    /\ \/ /\ db_file' = Missing
          /\ wk' = [wk EXCEPT !.pc = "rename"]
          /\ UNCHANGED hist
       \/ /\ wk' = [wk EXCEPT !.pc = "remove_sleep", !.sleep = Ticks(wk.delay)]
          /\ hist' = [hist EXCEPT !.save.sleeps = Append(@, wk.delay)]
          /\ UNCHANGED db_file
       \/ /\ wk' = [wk EXCEPT !.pc = "except"]
          /\ UNCHANGED <<db_file, hist>>
    /\ UNCHANGED <<tags_db, _save_queue, _save_lock, _pending_changes, time_since_last_save,
                   fg, backup_file, temp_file, platform>>

\* _save_db_with_retry, lines 87-88 and 70: the sleep ends and continue takes
\* the next attempt; after the last attempt the loop ends and the call returns
remove_sleep ==
    /\ wk.pc = "remove_sleep"
    /\ wk.sleep = 0
    /\ wk' = IF wk.attempt + 1 < max_retries
             THEN [wk EXCEPT !.pc = "attempt", !.attempt = @ + 1]
             ELSE [wk EXCEPT !.pc = "returned"]
    /\ temp_file' = NoTemp
    /\ hist' = [hist EXCEPT !.save.tmp_left = @ + 1]
    /\ UNCHANGED <<tags_db, _save_queue, _save_lock, _pending_changes, time_since_last_save,
                   fg, db_file, backup_file, platform>>

\* _save_db_with_retry, lines 90-91: os.rename replaces db_file, or raises
rename ==
    /\ wk.pc = "rename"
    /\ \/ /\ db_file' = Json(temp_file.data)
          /\ temp_file' = NoTemp
          /\ wk' = [wk EXCEPT !.pc = "returned"]
          /\ hist' = [hist EXCEPT !.save.wrote = TRUE]
       \/ /\ wk' = [wk EXCEPT !.pc = "except"]
          /\ UNCHANGED <<db_file, temp_file, hist>>
    /\ UNCHANGED <<tags_db, _save_queue, _save_lock, _pending_changes, time_since_last_save,
                   fg, backup_file, platform>>

\* _save_db_with_retry, lines 92-95: the last attempt re-raises, an earlier
\* attempt sleeps
except ==
    /\ wk.pc = "except"
    /\ wk' = IF wk.attempt = max_retries - 1
             THEN [wk EXCEPT !.pc = "raised"]
             ELSE [wk EXCEPT !.pc = "retry_sleep", !.sleep = Ticks(wk.delay)]
    /\ hist' = [hist EXCEPT
                  !.save.sleeps = IF wk.attempt = max_retries - 1 THEN @ ELSE Append(@, wk.delay),
                  !.save.tmp_left = IF temp_file.kind = "none" THEN @ ELSE @ + 1]
    /\ temp_file' = NoTemp
    /\ UNCHANGED <<tags_db, _save_queue, _save_lock, _pending_changes, time_since_last_save,
                   fg, db_file, backup_file, platform>>

\* _save_db_with_retry, lines 95-96 and 70: the sleep ends, the delay doubles
\* and the next attempt begins
retry_sleep ==
    /\ wk.pc = "retry_sleep"
    /\ wk.sleep = 0
    /\ wk' = [wk EXCEPT !.pc = "attempt", !.attempt = @ + 1, !.delay = @ * 2]
    /\ UNCHANGED <<tags_db, _save_queue, _save_lock, _pending_changes, time_since_last_save,
                   fg, db_file, backup_file, temp_file, platform, hist>>

\* raised, were the flag cleared whether or not the write succeeded
raised_ClearsFlag ==
    /\ wk.pc = "raised"
    /\ _save_lock' = "free"
    /\ _pending_changes' = FALSE
    /\ wk' = WkGet
    /\ hist' = [hist EXCEPT !.save = NoSave,
                            !.window = IF @.state = "off" THEN @ ELSE NoWindow]
    /\ UNCHANGED <<tags_db, _save_queue, time_since_last_save,
                   fg, db_file, backup_file, temp_file, platform>>

\* _save_worker, lines 56 and 65-66: the error leaves the with block, which
\* releases the lock, is printed, and the loop goes on
raised ==
    /\ wk.pc = "raised"
    /\ _save_lock' = "free"
    /\ wk' = WkGet
    /\ hist' = [hist EXCEPT !.save = NoSave,
                            !.window = IF @.state = "off" THEN @ ELSE NoWindow]
    /\ UNCHANGED <<tags_db, _save_queue, _pending_changes, time_since_last_save,
                   fg, db_file, backup_file, temp_file, platform>>

\* _save_worker, lines 59-62: _save_db_with_retry has returned
returned ==
    /\ wk.pc = "returned"
    /\ _pending_changes' = FALSE
    /\ time_since_last_save' = 0
    /\ _save_lock' = "free"
    /\ wk' = WkGet
    /\ hist' = [hist EXCEPT
                  !.save = NoSave,
                  !.window = IF @.state # "off" /\ ~hist.save.wrote THEN NoWindow
                             ELSE WindowAfter(@, "get", _save_queue)]
    /\ UNCHANGED <<tags_db, _save_queue, fg, db_file, backup_file, temp_file, platform>>

(***************************************************************************)
(* Time and the process.                                                   *)
(***************************************************************************)
\* hist.window after one tick
WindowTick(w) ==
    IF w.state # "open" THEN w
    ELSE IF w.age + 1 < Ticks(RateLimit) THEN [w EXCEPT !.age = @ + 1]
    ELSE WindowAfter([w EXCEPT !.age = @ + 1, !.state = "closed"], wk.pc, _save_queue)

\* one tick of time passes
Tick ==
    /\ time_since_last_save < Ticks(RateLimit) \/ wk.sleep > 0 \/ hist.window.state = "open"
    /\ time_since_last_save' = Min(time_since_last_save + 1, Ticks(RateLimit))
    /\ wk' = [wk EXCEPT !.sleep = IF @ > 0 THEN @ - 1 ELSE 0]
    /\ hist' = [hist EXCEPT !.window = WindowTick(@)]
    /\ UNCHANGED <<tags_db, _save_queue, _save_lock, _pending_changes,
                   fg, db_file, backup_file, temp_file, platform>>

\* __init__, lines 31-37, for the file f at db_file; renamed says whether the
\* os.rename of line 120 succeeds
Constructed(f, renamed) ==
    [tags_db     |-> LoadResult(f),
     db_file     |-> IF LoadRenames(f) /\ renamed THEN Missing ELSE f,
     backup_file |-> LoadRenames(f) /\ renamed]

\* the process is killed at any point and started again
Restart ==
    /\ \E renamed \in BOOLEAN :
        LET c == Constructed(db_file, renamed)
        IN  /\ tags_db' = c.tags_db
            /\ db_file' = c.db_file
            /\ backup_file' = (backup_file \/ c.backup_file)
    /\ _save_queue' = 0
    /\ _save_lock' = "free"
    /\ _pending_changes' = FALSE
    /\ time_since_last_save' = Ticks(RateLimit)
    /\ fg' = FgIdle
    /\ wk' = WkGet
    /\ temp_file' = NoTemp
    /\ hist' = NoHist(IF hist.window.state = "off" THEN WindowOff ELSE NoWindow)
    /\ UNCHANGED platform

(***************************************************************************)
(* The specifications.                                                     *)
(*   Spec       the whole program with a store of two paths                *)
(*   SpecCrash  Spec, and the process may be killed and started again      *)
(*   SpecBurst  the whole program with a store of one path, observing the  *)
(*              rate-limit windows                                         *)
(*   SpecLoad   the whole program with a store of one path, started with   *)
(*              each kind of file at db_file, killed and started again     *)
(*   SpecFair   the whole program with a store of one path, both threads    *)
(*              fairly scheduled                                           *)
(*   SpecStore  the foreground alone (the worker is never scheduled) with  *)
(*              the phrasings of paths and tags                            *)
(***************************************************************************)
InitWith(files, platforms, window) ==
    /\ platform \in platforms
    /\ \E f \in files, renamed \in BOOLEAN :
        LET c == Constructed(f, renamed)
        IN  /\ tags_db = c.tags_db
            /\ db_file = c.db_file
            /\ backup_file = c.backup_file
    /\ _save_queue = 0
    /\ _save_lock = "free"
    /\ _pending_changes = FALSE
    /\ time_since_last_save = Ticks(RateLimit)
    /\ fg = FgIdle
    /\ wk = WkGet
    /\ temp_file = NoTemp
    /\ hist = NoHist(window)

\* the steps of the foreground after the call has begun
Foreground(limit) ==
    \/ add_tags_loop
    \/ remove_tag_del
    \/ batch
    \/ queue_save
    \/ put(limit)
    \/ progress
    \/ return

\* the steps of the save worker, and time
Worker ==
    \/ get
    \/ get_timeout
    \/ rate_sleep
    \/ lock
    \/ attempt
    \/ dump
    \/ fsync
    \/ remove
    \/ remove_sleep
    \/ rename
    \/ except
    \/ raised
    \/ retry_sleep
    \/ returned
    \/ Tick

Paths == {<<"s", "g1">>, <<"h">>}
Tags == {<<"a">>}
TagLists == {<<>>, <<<<"a">>>>}
Directories == {<<"s">>}

Init == InitWith({Missing}, {"posix", "win32"}, WindowOff)

Next ==
    \/ \E filepath \in Paths, tags \in TagLists : add_tags(filepath, tags)
    \/ \E filepath \in Paths, tag \in Tags : remove_tag(filepath, tag)
    \/ \E directory \in Directories, tags \in TagLists, cb \in BOOLEAN :
          add_tags_to_directory(directory, tags, cb)
    \/ Foreground(MaxQueue)
    \/ Worker

Spec == Init /\ [][Next]_vars

NextCrash == Next \/ Restart

SpecCrash == Init /\ [][NextCrash]_vars

InitBurst == InitWith({Missing}, {"posix", "win32"}, NoWindow)

NextBurst ==
    \/ \E tags \in TagLists : add_tags(<<"h">>, tags)
    \/ \E tag \in Tags : remove_tag(<<"h">>, tag)
    \/ \E directory \in Directories, cb \in BOOLEAN : add_tags_to_directory(directory, <<>>, cb)
    \/ Foreground(MaxQueue)
    \/ Worker

SpecBurst == InitBurst /\ [][NextBurst]_vars

\* the files the process may find at db_file when it starts
Files == {Missing, EmptyFile, Garbage, Unreadable, Json(EmptyDb), Json(<<"h">> :> <<<<"a">>>>)}

InitLoad == InitWith(Files, {"posix", "win32"}, WindowOff)

NextLoad ==
    \/ \E tags \in TagLists : add_tags(<<"h">>, tags)
    \/ \E tag \in Tags : remove_tag(<<"h">>, tag)
    \/ \E directory \in Directories, cb \in BOOLEAN : add_tags_to_directory(directory, <<>>, cb)
    \/ Foreground(MaxQueue)
    \/ Worker
    \/ Restart

SpecLoad == InitLoad /\ [][NextLoad]_vars

InitFair == InitWith({Missing}, {"posix", "win32"}, WindowOff)

NextFair ==
    \/ \E tags \in TagLists : add_tags(<<"h">>, tags)
    \/ \E tag \in Tags : remove_tag(<<"h">>, tag)
    \/ \E directory \in Directories, cb \in BOOLEAN : add_tags_to_directory(directory, <<>>, cb)
    \/ Foreground(MaxQueue)
    \/ Worker

\* both threads are scheduled and time passes; the caller is free to make no
\* further call
Fairness == WF_vars(Worker) /\ WF_vars(Foreground(MaxQueue))

SpecFair == InitFair /\ [][NextFair]_vars /\ Fairness

RawPaths == {<<"d", "f1">>, <<".", "d", "f1">>, <<"h">>}
RawTags == {<<"a">>, <<" ", "A">>, <<"b">>, <<"A">>, <<" ">>, NonStr}
RawTagLists ==
    {<<>>, <<<<" ">>>>, <<<<"a">>>>, <<<<"b">>, <<" ", "A">>>>, <<<<"a">>, <<"A">>>>,
     <<<<"b">>, NonStr>>}
RawDirectories == {<<"d">>, <<".", "d">>, <<"e">>}

InitStore == InitWith({Missing}, {"posix"}, WindowOff)

NextStore ==
    \/ \E filepath \in RawPaths, tags \in RawTagLists : add_tags(filepath, tags)
    \/ \E filepath \in RawPaths, tag \in RawTags : remove_tag(filepath, tag)
    \/ \E directory \in RawDirectories, tags \in RawTagLists, cb \in BOOLEAN :
          add_tags_to_directory(directory, tags, cb)
    \/ \E search_tags \in RawTagLists : search_by_tags(search_tags)
    \/ Foreground(MaxCalls)

SpecStore == InitStore /\ [][NextStore]_vars

(***************************************************************************)
(* The claims.                                                             *)
(***************************************************************************)
\* the worker is inside _save_db_with_retry
Saving == _save_lock = "worker" /\ wk.pc # "returned" /\ wk.pc # "raised"

\* C1: at every step of a write the file at db_file holds the complete
\* previous snapshot or the complete new one, and a process killed before the
\* final rename loads the pre-write mapping when it starts again.
C1_OldOrNewSnapshot ==
    /\ [](_save_lock = "worker" =>
            \/ db_file = hist.save.start_file
            \/ hist.save.wrote /\ db_file.kind = "json")
    /\ [][(Restart /\ _save_lock = "worker" /\ ~hist.save.wrote)
            => tags_db' = LoadResult(hist.save.start_file)]_vars

\* C2: _pending_changes goes from true to false only in a worker iteration
\* whose _save_db_with_retry replaced db_file.
C2_ClearedOnlyByWrite ==
    [][(_pending_changes /\ ~_pending_changes') => hist.save.wrote]_vars

\* C3: _save_db_with_retry makes at most max_retries attempts and never
\* returns normally without having replaced db_file.
C3_RaisesUnlessWritten ==
    /\ wk.attempt < max_retries
    /\ wk.pc = "returned" => hist.save.wrote

\* C4: the mutations issued within one time unit of a first one cause exactly
\* one call of _save_db_with_retry, and when their signals are all taken the
\* file holds the map with all of them.
C4_OneWritePerWindow ==
    /\ hist.window.saves <= 1
    /\ hist.window.state = "done" =>
         /\ hist.window.saves = 1
         /\ fg.pc = "idle" => db_file = Json(tags_db)

\* C5: every snapshot json.dump has completed equals tags_db as it was at one
\* instant at which no mutation was part done.
C5_SnapshotOfOneInstant ==
    wk.pc = "fsync" => hist.instants # {}

\* C6: the foreground never waits for _save_lock in queue_save while the
\* worker is inside _save_db_with_retry.
C6_ForegroundNeverWaits ==
    ~(fg.pc = "queue_save" /\ Saving)

\* C7: when _save_db_with_retry raises, the worker goes back to waiting for a
\* signal with the lock released, the flag still set and the time of the last
\* save unchanged; the flag then stays set until a write returns, and the
\* worker's next pass through line 57 begins a new write.
C7_WorkerSurvivesFailure ==
    /\ [][(wk.pc = "raised" /\ wk'.pc # "raised") =>
            /\ wk'.pc = "get"
            /\ _save_lock' = "free"
            /\ _pending_changes'
            /\ time_since_last_save' = time_since_last_save]_vars
    /\ [][(_pending_changes /\ ~_pending_changes') => wk.pc = "returned"]_vars
    /\ [][(wk.pc = "lock" /\ wk'.pc # "lock" /\ _pending_changes) => wk'.pc = "attempt"]_vars

\* the worker waits for a signal while the flag is set and no signal is on its
\* way: the write for the last signal has failed
C7_Witness ==
    /\ wk.pc = "get"
    /\ _save_lock = "free"
    /\ _pending_changes
    /\ _save_queue = 0
    /\ fg.pc = "idle"

\* C8: between calls, every key of tags_db maps to a non-empty tag list.
C8_NoEmptyTagList ==
    fg.pc = "idle" => \A key \in DOMAIN tags_db : tags_db[key] # <<>>

\* C9: every key of tags_db equals its own normalization, so get_tags finds
\* the entry of a file under every phrasing of its path.
C9_KeysCanonical ==
    \A key \in DOMAIN tags_db : PathStr(key) = key

NoDuplicates(list) == \A i, j \in 1..Len(list) : list[i] = list[j] => i = j

\* the tags of path in the map db
TagsIn(db, path) == IF PathStr(path) \in DOMAIN db THEN db[PathStr(path)] ELSE <<>>

\* the lowercased, trimmed, non-empty tags of a list of str
NormTags(tags) == {NormTag(tags[i]) : i \in 1..Len(tags)} \ {<<>>}

\* add_tags(p, T) has returned to its caller without raising
AddTagsDone == fg.op = "add_tags" /\ fg.pc = "return" /\ ~fg.result.raised

\* C10: after add_tags(p, T), get_tags(p) has exactly the tags p had before
\* and the lowercased, trimmed, non-empty tags of T, none twice, and the tag
\* lists of the other paths are as before.
C10_AddTagsThenGetTags ==
    AddTagsDone =>
        LET p == hist.call.path
            pre == hist.call.pre
        IN  /\ Members(get_tags(p)) = Members(TagsIn(pre, p)) \cup NormTags(fg.tags)
            /\ NoDuplicates(get_tags(p))
            /\ (DOMAIN tags_db) \ {PathStr(p)} = (DOMAIN pre) \ {PathStr(p)}
            /\ \A key \in (DOMAIN pre) \ {PathStr(p)} : tags_db[key] = pre[key]

\* add_tags has returned for a path not in canonical form that had a tag, with
\* a list that holds a new tag and, in another spelling, a tag the path had
C10_Witness ==
    /\ AddTagsDone
    /\ hist.call.path # PathStr(hist.call.path)
    /\ TagsIn(hist.call.pre, hist.call.path) # <<>>
    /\ NormTags(fg.tags) \ Members(TagsIn(hist.call.pre, hist.call.path)) # {}
    /\ \E i \in 1..Len(fg.tags) :
          /\ NormTag(fg.tags[i]) # fg.tags[i]
          /\ NormTag(fg.tags[i]) \in Members(TagsIn(hist.call.pre, hist.call.path))
    /\ (DOMAIN hist.call.pre) \ {PathStr(hist.call.path)} # {}

\* search_by_tags(Q) has returned for a list Q of str
SearchDone == fg.op = "search_by_tags" /\ fg.pc = "return" /\ AllStr(fg.tags)

\* C11: search_by_tags(Q) returns each path whose stored tag list contains
\* every lowercased, trimmed tag of Q, no other path, and no path twice.
C11_SearchSuperset ==
    SearchDone =>
        /\ Members(fg.result.value) =
              {key \in DOMAIN tags_db : NormTags(fg.tags) \subseteq Members(tags_db[key])
                                         /\ \A i \in 1..Len(fg.tags) : NormTag(fg.tags[i]) # <<>>}
        /\ NoDuplicates(fg.result.value)

\* a search with a tag in another spelling has found a path and left one out
C11_Witness ==
    /\ SearchDone
    /\ \E i \in 1..Len(fg.tags) : NormTag(fg.tags[i]) # fg.tags[i]
    /\ fg.result.value # <<>>
    /\ Len(fg.result.value) < Cardinality(DOMAIN tags_db)

\* add_tags_to_directory is running, or has returned, with a list of str
InDirectoryCall == fg.op = "add_tags_to_directory" /\ AllStr(fg.tags) /\ ~fg.result.raised

\* the files processed when k batches are done
Processed(k) == Min(batch_size * k, Len(fg.files))

\* the number of batches of the call
NumBatches == (Len(fg.files) + batch_size - 1) \div batch_size

\* the first m enumerated files have every normalized tag
Tagged(m) ==
    \A x \in 1..m : /\ fg.files[x] \in DOMAIN tags_db
                     /\ NormTags(fg.tags) \subseteq Members(tags_db[fg.files[x]])

\* the calls of progress_callback after k batches
ProgressAfter(k) == IF fg.cb THEN [b \in 1..k |-> <<Processed(b), Len(fg.files)>>] ELSE <<>>

\* C12: add_tags_to_directory works in batches of at most batch_size files;
\* for each batch it mutates the map, then calls queue_save, then reports
\* (min(batch_size * k, n), n); the counts increase strictly and end at n; it
\* returns n and then every enumerated file has every normalized tag.
C12_BatchesInOrder ==
    InDirectoryCall =>
        LET k == (fg.i \div batch_size) + 1
            n == Len(fg.files)
        IN  /\ fg.pc = "batch" =>
                  /\ fg.i % batch_size = 0 /\ fg.i < fg.j /\ fg.j <= fg.i + batch_size
                  /\ hist.call.signals = k - 1 /\ hist.call.progress = ProgressAfter(k - 1)
            /\ fg.pc \in {"queue_save", "put"} =>
                  /\ Tagged(Processed(k))
                  /\ hist.call.signals = k - 1 /\ hist.call.progress = ProgressAfter(k - 1)
            /\ fg.pc = "progress" =>
                  /\ Tagged(Processed(k))
                  /\ hist.call.signals = k /\ hist.call.progress = ProgressAfter(k - 1)
            /\ fg.pc = "return" =>
                  /\ fg.result.value = n
                  /\ Tagged(n)
                  /\ hist.call.signals = NumBatches
                  /\ hist.call.progress = ProgressAfter(NumBatches)
                  /\ \A b \in 1..Len(hist.call.progress) - 1 :
                        hist.call.progress[b][1] < hist.call.progress[b + 1][1]
                  /\ hist.call.progress # <<>> =>
                        hist.call.progress[Len(hist.call.progress)][1] = n

\* a call with a callback and a tag to normalize has returned after more than
\* one batch, the last one not full
C12_Witness ==
    /\ InDirectoryCall
    /\ fg.pc = "return"
    /\ fg.cb
    /\ Len(hist.call.progress) >= 2
    /\ Len(fg.files) % batch_size # 0
    /\ \E i \in 1..Len(fg.tags) : NormTag(fg.tags[i]) # fg.tags[i] /\ NormTag(fg.tags[i]) # <<>>

\* C13: an error while updating one file of add_tags_to_directory does not
\* end the call: it returns without raising, after a queue_save for every batch.
C13_FileErrorSkipped ==
    (fg.op = "add_tags_to_directory" /\ fg.pc = "return") =>
        /\ ~fg.result.raised
        /\ hist.call.signals = NumBatches

\* C14: _load_db returns an empty store for a missing, empty, unparseable or
\* unreadable file and renames the file to the backup name in the last three
\* cases (it stays in place only when that rename fails); for a valid
\* snapshot it returns the mapping and leaves the file in place.
C14_LoadFailsSoft ==
    [][Restart =>
         /\ db_file.kind # "json" => tags_db' = EmptyDb
         /\ db_file.kind = "json" => tags_db' = db_file.data /\ db_file' = db_file
         /\ db_file.kind = "missing" => db_file' = db_file
         /\ db_file.kind \in {"empty", "garbage", "unreadable"} =>
               \/ db_file' = Missing /\ backup_file'
               \/ db_file' = db_file /\ Constructed(db_file, TRUE).db_file = Missing]_vars

\* C15: the worker is inside a write (it holds the lock from line 56 to line
\* 60) only when at least RateLimit time units have passed since _last_save.
C15_MinWriteInterval ==
    _save_lock = "worker" => time_since_last_save >= Ticks(RateLimit)

\* after a write the worker has taken a signal within the time unit, has slept
\* out the rest of it and is about to begin the next write
C15_Witness ==
    /\ wk.pc = "rate_sleep"
    /\ wk.sleep = 0
    /\ db_file.kind = "json"
    /\ _pending_changes
    /\ _save_lock = "free"
    /\ time_since_last_save = Ticks(RateLimit)

\* the flag is set while nothing is in progress: no call, no signal, the
\* worker waiting at line 49
PendingIdle == _pending_changes /\ wk.pc = "get" /\ _save_queue = 0 /\ fg.pc = "idle"

\* C16: when the flag is set and the worker waits with no signal on its way,
\* the worker eventually begins another write attempt.
C16_RetriesOnWake == PendingIdle ~> (wk.pc = "attempt")

\* C17: whenever tags_db differs from the snapshot on disk, _pending_changes
\* is true.
C17_DirtyImpliesFlag ==
    tags_db # LoadResult(db_file) => _pending_changes

\* _save_db_with_retry has ended without having replaced db_file
GaveUp == wk.pc = "raised" \/ (wk.pc = "returned" /\ ~hist.save.wrote)

\* C18: when every attempt of _save_db_with_retry has failed, the sleeps it
\* made were of 1, 2 and 4 time units.
C18_BackoffSleeps ==
    GaveUp => hist.save.sleeps = <<InitialDelay, 2 * InitialDelay, 4 * InitialDelay>>

\* C19: when _save_db_with_retry returns having replaced db_file, none of the
\* temporary files its attempts created is left.
C19_NoTempLeftOnSuccess ==
    (wk.pc = "returned" /\ hist.save.wrote) => hist.save.tmp_left = 0

\* an attempt of _save_db_with_retry has just failed
AttemptFailed == wk.pc \in {"except", "remove_sleep"}

\* no call in progress, no signal waiting, the worker waiting at line 49
Quiescent == fg.pc = "idle" /\ _save_queue = 0 /\ wk.pc = "get"

\* the snapshot on disk is tags_db and nothing is left to save
Saved == LoadResult(db_file) = tags_db /\ ~_pending_changes

\* C20: in a run where no write attempt fails and both threads are fairly
\* scheduled, every quiescent state has tags_db on disk and the flag false,
\* a set flag is eventually cleared, and once the caller makes no further
\* call the disk holds tags_db from some point on.
C20_MutationsReachDisk ==
    \/ <>AttemptFailed
    \/ /\ [](Quiescent => Saved)
       /\ (_pending_changes ~> ~_pending_changes)
       /\ (<>[](fg.pc = "idle") => <>[]Saved)

\* the program is quiescent with a map on disk that a mutation call changed
C20_Witness ==
    /\ Quiescent
    /\ tags_db # EmptyDb
    /\ db_file = Json(tags_db)
    /\ ~_pending_changes

====
